---- MODULE Spec2Model ----
(***************************************************************************)
(* Model of LBA.py: the Linear Ballistic Accumulator trial simulator       *)
(* (simulate_LBA), the defective density (defective_pdf_LBA) and the two   *)
(* discrete integration helpers (dcdf_from_dpdf, cdf_from_pdf).            *)
(*                                                                         *)
(* Numbers.  Drift rates, thresholds, A, k, t0, s and the noise are held   *)
(* in tenths (10 stands for 1.0, 5 for 0.5, 2 for 0.2).  A finish time is  *)
(* an exact fraction [n, d] of tenths; d = 0 stands for the IEEE results   *)
(* of a division by a zero drift: n > 0 is +inf, n < 0 is -inf, n = 0 is   *)
(* nan.                                                                    *)
(*                                                                         *)
(* Containers.  Python decides several steps of simulate_LBA by the type   *)
(* of the container it is handed, so a container carries its kind ("list"  *)
(* or "ndarray") and, for drift rates, its dtype.                          *)
(***************************************************************************)
EXTENDS Integers, Sequences, FiniteSets, Bags, TLC

VARIABLES driftRates, thresholds, rng, calls, call, ret

\* driftRates  the container the caller passes as list_v: kind, dtype, vals
\* thresholds  the container the caller passes as list_B: kind, vals
\* rng         variates the caller's generator has handed out, by distribution
\* calls       simulate_LBA calls made so far
\* call        the arguments of the last call (of the call to apply, for the
\*             analytical family)
\* ret         what that call returned or raised, with the locals it had built
vars == <<driftRates, thresholds, rng, calls, call, ret>>

(* ------------------------------ bounds -------------------------------- *)

\* most accumulators in a simulated race
MaxN == 3
\* most simulate_LBA calls made on the same containers
MaxCalls == 2

(* --------------------------- input domains ---------------------------- *)

DriftVals == {5, 10}
ThreshVals == {10, 20}
AVals == {5}
KGrid == {0, 5}
T0Vals == {2}
SVals == {0, 2}
\* standard-normal variates the generator may produce
ZVals == {-5, 1}

SeqsOf(S, lo, hi) == UNION {[1..m -> S] : m \in lo..hi}

IsWhole(vals) == \A i \in 1..Len(vals) : vals[i] % 10 = 0

DriftContainers ==
    {[kind |-> kd[1], dtype |-> kd[2], vals |-> vs] :
        kd \in {<<"list", "float">>, <<"ndarray", "float">>},
        vs \in SeqsOf(DriftVals, 1, MaxN)}
    \cup
    {[kind |-> "ndarray", dtype |-> "int", vals |-> vs] :
        vs \in {w \in SeqsOf(DriftVals, 1, MaxN) : IsWhole(w)}}

ThresholdContainers ==
    {[kind |-> kd, vals |-> vs] :
        kd \in {"list", "ndarray"}, vs \in SeqsOf(ThreshVals, 1, MaxN + 1)}

None == [op |-> "none"]

(* ----------------------------- fractions ------------------------------ *)

Sign(x) == IF x > 0 THEN 1 ELSE IF x < 0 THEN -1 ELSE 0

\* x / y as numpy float64 division evaluates it (x, y integers of tenths),
\* the quotient counted in tenths
Quot(x, y) ==
    IF y = 0 THEN [n |-> Sign(x), d |-> 0]
    ELSE IF y < 0 THEN [n |-> -(10 * x), d |-> -y]
    ELSE [n |-> 10 * x, d |-> y]

\* fraction + integer
AddInt(q, c) == IF q.d = 0 THEN q ELSE [n |-> q.n + c * q.d, d |-> q.d]

IsNaN(q) == q.d = 0 /\ q.n = 0

\* q1 < q2 on the extended reals (false when either is nan)
Less(q1, q2) ==
    IF IsNaN(q1) \/ IsNaN(q2) THEN FALSE
    ELSE IF q1.d = 0 /\ q2.d = 0 THEN q1.n < q2.n
    ELSE IF q1.d = 0 THEN q1.n < 0
    ELSE IF q2.d = 0 THEN q2.n > 0
    ELSE q1.n * q2.d < q2.n * q1.d

\* q = c / 10 ... the fraction equals the integer c (of tenths)
EqInt(q, c) == q.d # 0 /\ q.n = c * q.d

\* np.argmin over a one-dimensional array: the first nan if there is one,
\* else the first position holding the minimum (1-based here)
ArgMin(a) ==
    IF \E i \in 1..Len(a) : IsNaN(a[i])
    THEN CHOOSE i \in 1..Len(a) :
            IsNaN(a[i]) /\ \A j \in 1..(i - 1) : ~IsNaN(a[j])
    ELSE CHOOSE i \in 1..Len(a) :
            /\ \A j \in 1..Len(a) : ~Less(a[j], a[i])
            /\ \A j \in 1..(i - 1) : Less(a[i], a[j])

(* --------------------------- simulate_LBA ----------------------------- *)

\* rng.normal(loc=0, scale=s, size=n): loc + scale * z per element, z ranging
\* over the standard-normal variates; every outcome the draw can have
NormalDraws(s, n) == {[i \in 1..n |-> s * z[i]] : z \in [1..n -> ZVals]}

\* list_v += noise, the value the local name list_v is bound to afterwards
\* (a new array for a list operand, the same array updated for an ndarray)
PerturbedDrift(vals, noise) == [i \in 1..Len(vals) |-> vals[i] + noise[i]]

\* whether line 24 raises: an integer array cannot take the float64 sum
\* in place (numpy's same_kind casting rule)
PerturbRaises(c) == c.kind = "ndarray" /\ c.dtype = "int"

\* whether line 24 writes into the caller's container
PerturbInPlace(c) == c.kind = "ndarray" /\ c.dtype = "float"

\* line 27: the single-threshold branch is taken
Broadcast(B) == Len(B.vals) = 1

\* number of finish times line 32 computes before it stops
\*   broadcast of a list: list_B[0] is the list itself, list - float raises
\*   fewer thresholds than drift rates: list_B[i] raises at i = len(list_B)
FinishCount(v, B) ==
    IF Broadcast(B)
    THEN (IF B.kind = "list" THEN 0 ELSE Len(v))
    ELSE (IF Len(B.vals) < Len(v) THEN Len(B.vals) ELSE Len(v))

FinishError(v, B) ==
    IF Broadcast(B)
    THEN (IF B.kind = "list" THEN "TypeError" ELSE "ok")
    ELSE (IF Len(B.vals) < Len(v) THEN "IndexError" ELSE "ok")

\* the threshold value entering accumulator i's finish time
ThresholdOf(B, i) == IF Broadcast(B) THEN B.vals[1] ELSE B.vals[i]

\* ((list_B[i] - list_k) / list_v[i]) + t0
FinishTime(b, k, v, t0) == AddInt(Quot(b - k, v), t0)

FinishTimes(v, B, k, t0) ==
    [i \in 1..FinishCount(v, B) |-> FinishTime(ThresholdOf(B, i), k, v[i], t0)]

\* shape of RTs[choice]: a broadcast ndarray threshold makes every finish
\* time a one-element array, so RTs is (n, 1) and RT a one-element array
RTShape(B) == IF Broadcast(B) THEN "array1" ELSE "scalar"

SimulateResult(c, B, A, t0, noise, k) ==
    LET n == Len(c.vals)
        v == PerturbedDrift(c.vals, noise)
    IN  IF PerturbRaises(c)
        THEN [status |-> "UFuncTypeError", normalDraws |-> n, uniformDraws |-> 0,
              vUsed |-> <<>>, finish |-> <<>>]
        ELSE IF FinishError(v, B) # "ok"
        THEN [status |-> FinishError(v, B), normalDraws |-> n, uniformDraws |-> 1,
              vUsed |-> v, finish |-> FinishTimes(v, B, k, t0)]
        ELSE LET RTs == FinishTimes(v, B, k, t0)
                 choice == ArgMin(RTs)
             IN  [status |-> "ok", normalDraws |-> n, uniformDraws |-> 1,
                  vUsed |-> v, finish |-> RTs,
                  choice |-> choice - 1, RT |-> RTs[choice], shape |-> RTShape(B)]

SimulateLBA ==
    /\ calls < MaxCalls
    /\ \E A \in AVals, t0 \in T0Vals, s \in SVals,
          k \in KGrid : \E noise \in NormalDraws(s, Len(driftRates.vals)) :
        /\ k <= A
        /\ LET r == SimulateResult(driftRates, thresholds, A, t0, noise, k)
           IN  /\ call' = [op |-> "simulate_LBA", list_v |-> driftRates.vals,
                           list_B |-> thresholds.vals, A |-> A, t0 |-> t0,
                           s |-> s, k |-> k]
               /\ ret' = r
               /\ rng' = [normal |-> rng.normal + r.normalDraws,
                          uniform |-> rng.uniform + r.uniformDraws]
               /\ driftRates' =
                    IF PerturbInPlace(driftRates)
                    THEN [driftRates EXCEPT !.vals = PerturbedDrift(@, noise)]
                    ELSE driftRates
    /\ calls' = calls + 1
    /\ UNCHANGED thresholds

(* ------------------------ defective_pdf_LBA --------------------------- *)
(* The closed forms call scipy's norm.cdf (Phi) and norm.pdf (phi), which  *)
(* stay uninterpreted: a density is the term the code builds, given by the *)
(* arguments of Phi and phi (numerator and denominator) and the            *)
(* coefficients, and a product is the bag of its factors.  Quantities of   *)
(* this part are plain integers.                                           *)

\* most drift rates handed to defective_pdf_LBA
MaxDrift == 3
\* most points of a tabulated density
MaxGrid == 3
\* largest x / t value of a table
MaxT == 2
\* largest tabulated density value
MaxDens == 1

PdfDriftVals == {1, 2}
PdfTimes == {1, 2}
PdfThresholds == {2, 3}
PdfA == {1}
PdfS == {1}
DensVals == -1..MaxDens

Pending == [status |-> "pending"]

\* f = (1/A)*(-v*Phi(z1) + s*phi(z1) + v*Phi(z2) - s*phi(z2)),
\*   z1 = (b-A-t*v)/(t*s), z2 = (b-t*v)/(t*s)
pdf_LBA_accumulator(t, v, b, A, s) ==
    [fn |-> "f", z1 |-> <<b - A - t * v, t * s>>, z2 |-> <<b - t * v, t * s>>,
     cPhi |-> v, cphi |-> s, scale |-> A]

\* F = 1 + ((b-A-t*v)/A)*Phi(z1) - ((b-t*v)/A)*Phi(z2)
\*       + ((t*s)/A)*phi(z1) - ((t*s)/A)*phi(z2)
cdf_LBA_accumulator(t, v, b, A, s) ==
    [fn |-> "F", z1 |-> <<b - A - t * v, t * s>>, z2 |-> <<b - t * v, t * s>>,
     cPhi1 |-> b - A - t * v, cPhi2 |-> b - t * v, cphi |-> t * s, scale |-> A]

\* 1 - F
Complement(F) == [fn |-> "1-", arg |-> F]

\* a plausible slip: drop every entry equal to the reference value
np_delete_by_value(a, idx) == SelectSeq(a, LAMBDA x : x # a[idx + 1])

\* np.delete(a, idx): a without the entry at 0-based position idx
np_delete(a, idx) ==
    [i \in 1..(Len(a) - 1) |-> IF i <= idx THEN a[i] ELSE a[i + 1]]

RECURSIVE BagOfSeq(_)
\* np.prod over the stacked rows: the product of every entry of the list
BagOfSeq(q) ==
    IF q = <<>> THEN EmptyBag
    ELSE SetToBag({Head(q)}) (+) BagOfSeq(Tail(q))

DefectivePdfResult(t, list_v, b, A, s, ref) ==
    IF ref >= Len(list_v)
    THEN [status |-> "IndexError"]
    ELSE LET v_ref == list_v[ref + 1]
             v_rest == np_delete(list_v, ref)
             p_ref == pdf_LBA_accumulator(t, v_ref, b, A, s)
             p_rest == [i \in 1..Len(v_rest) |->
                          Complement(cdf_LBA_accumulator(t, v_rest[i], b, A, s))]
         IN  IF p_rest = <<>>
             THEN [status |-> "ValueError"]
             ELSE [status |-> "ok", p_ref |-> p_ref, p_rest |-> BagOfSeq(p_rest)]

DefectivePdfCalls ==
    {[op |-> "defective_pdf_LBA", t |-> t, list_v |-> lv, b |-> b, A |-> A,
      s |-> s, ref |-> ref] :
        t \in PdfTimes, lv \in SeqsOf(PdfDriftVals, 1, MaxDrift),
        b \in PdfThresholds, A \in PdfA, s \in PdfS, ref \in 0..MaxDrift}

DefectivePdfLBA ==
    /\ call.op = "defective_pdf_LBA"
    /\ ret = Pending
    /\ ret' = DefectivePdfResult(call.t, call.list_v, call.b, call.A, call.s,
                                 call.ref)
    /\ UNCHANGED <<driftRates, thresholds, rng, calls, call>>

(* -------------------------- dcdf_from_dpdf ---------------------------- *)

\* np.diff(a)
np_diff(a) == [i \in 1..(Len(a) - 1) |-> a[i + 1] - a[i]]

\* a plausible slip: the running sum without the current entry
RECURSIVE np_cumsum_exclusive(_)
np_cumsum_exclusive(a) ==
    IF a = <<>> THEN <<>>
    ELSE LET front == SubSeq(a, 1, Len(a) - 1)
             prev == np_cumsum_exclusive(front)
         IN  Append(prev, IF prev = <<>> THEN 0 ELSE prev[Len(prev)] + front[Len(front)])

RECURSIVE np_cumsum(_)
\* np.cumsum(a)
np_cumsum(a) ==
    IF a = <<>> THEN <<>>
    ELSE LET prev == np_cumsum(SubSeq(a, 1, Len(a) - 1))
         IN  Append(prev, (IF prev = <<>> THEN 0 ELSE prev[Len(prev)]) + a[Len(a)])

\* array * scalar
Scale(a, c) == [i \in 1..Len(a) |-> a[i] * c]

\* t and dpdf_values are numpy arrays, as the docstring has them
DcdfResult(t, dpdf_values) ==
    IF Len(t) < 2
    THEN [status |-> "IndexError"]
    ELSE LET dx == np_diff(t)[1]
         IN  [status |-> "ok", dcdf |-> np_cumsum(Scale(dpdf_values, dx))]

DcdfCalls ==
    {[op |-> "dcdf_from_dpdf", t |-> t, dpdf_values |-> d] :
        t \in SeqsOf(0..MaxT, 1, MaxGrid), d \in SeqsOf(DensVals, 1, MaxGrid)}

DcdfFromDpdf ==
    /\ call.op = "dcdf_from_dpdf"
    /\ ret = Pending
    /\ ret' = DcdfResult(call.t, call.dpdf_values)
    /\ UNCHANGED <<driftRates, thresholds, rng, calls, call>>

(* --------------------------- cdf_from_pdf ----------------------------- *)

\* np.argsort(x) for distinct x: position r holds the index of the r-th
\* smallest entry
np_argsort(x) ==
    [r \in 1..Len(x) |->
        CHOOSE i \in 1..Len(x) :
            Cardinality({j \in 1..Len(x) : x[j] < x[i]}) = r - 1]

\* a[idx]
Take(a, idx) == [r \in 1..Len(idx) |-> a[idx[r]]]

\* a[:-1] * b, elementwise
MulFront(a, b) == [i \in 1..Len(b) |-> a[i] * b[i]]

\* cdf_values /= cdf_values[-1] on a float array: each entry over the last,
\* kept as <<numerator, denominator>>; a zero denominator is numpy's nan
\* (0/0) or inf (x/0), produced with a warning and no exception
DivideByLast(c) == [i \in 1..Len(c) |-> <<c[i], c[Len(c)]>>]

\* dtype "int": both tables hold integers, so the running sums are an
\* integer array and the in-place true division raises
CdfFromPdfResult(x_values, pdf_values, dtype) ==
    LET idx_sorted == np_argsort(x_values)
        x_sorted == Take(x_values, idx_sorted)
        pdf_sorted == Take(pdf_values, idx_sorted)
        dx == np_diff(x_sorted)
        cdf_values == np_cumsum(MulFront(pdf_sorted, dx))
    IN  IF cdf_values = <<>>
        THEN [status |-> "IndexError", divided |-> FALSE, cdf_values |-> cdf_values]
        ELSE IF dtype = "int"
        THEN [status |-> "UFuncTypeError", divided |-> FALSE,
              cdf_values |-> cdf_values]
        \* line 132: numpy has no attribute 'instert'
        ELSE [status |-> "AttributeError", divided |-> TRUE,
              cdf_values |-> DivideByLast(cdf_values)]

Distinct(x) == \A i, j \in 1..Len(x) : i # j => x[i] # x[j]

CdfCalls ==
    {c \in [op : {"cdf_from_pdf"},
             x_values : {w \in SeqsOf(0..MaxT, 1, MaxGrid) : Distinct(w)},
             pdf_values : SeqsOf(DensVals, 1, MaxGrid),
             dtype : {"float", "int"}] :
        Len(c.pdf_values) = Len(c.x_values)}

CdfFromPdf ==
    /\ call.op = "cdf_from_pdf"
    /\ ret = Pending
    /\ ret' = CdfFromPdfResult(call.x_values, call.pdf_values, call.dtype)
    /\ UNCHANGED <<driftRates, thresholds, rng, calls, call>>

(* -------------------------- specifications ---------------------------- *)

Init ==
    /\ driftRates \in DriftContainers
    /\ thresholds \in ThresholdContainers
    /\ rng = [normal |-> 0, uniform |-> 0]
    /\ calls = 0
    /\ call = None
    /\ ret = None

Next == SimulateLBA

Spec == Init /\ [][Next]_vars

\* the analytical family: Init draws one call, the actions apply it
InitDensity ==
    /\ driftRates = [kind |-> "list", dtype |-> "float", vals |-> <<>>]
    /\ thresholds = [kind |-> "list", vals |-> <<>>]
    /\ rng = [normal |-> 0, uniform |-> 0]
    /\ calls = 0
    /\ call \in DefectivePdfCalls \cup DcdfCalls \cup CdfCalls
    /\ ret = Pending

NextDensity == DefectivePdfLBA \/ DcdfFromDpdf \/ CdfFromPdf

SpecDensity == InitDensity /\ [][NextDensity]_vars

(* ------------------------------ claims -------------------------------- *)

IsSim == call.op = "simulate_LBA"

\* C1: with s = 0 and one threshold per accumulator (n >= 1), the call
\* returns choice = the index in [0, n) of the minimum of
\* finish_i = (threshold_i - k) / drift_i + t0, all with the one drawn k,
\* and RT = that minimum; [1.0, 0.5] / [1.0, 1.0] / t0 = 0.2 give (0, 1.2)
\* for k = 0 and (0, 0.7) for k = 0.5.  (Stated for float drift rates.)
C1_ChoiceIsArgminOfFinishTimes ==
    (IsSim /\ call.s = 0 /\ driftRates.dtype = "float"
        /\ Len(call.list_B) = Len(call.list_v)) =>
    LET v == call.list_v
        B == call.list_B
        finish == [i \in 1..Len(v) |-> AddInt(Quot(B[i] - call.k, v[i]), call.t0)]
    IN  /\ ret.status = "ok"
        /\ ret.choice \in 0..(Len(v) - 1)
        /\ ret.RT = finish[ret.choice + 1]
        /\ \A i \in 1..Len(v) : ~Less(finish[i], ret.RT)
        /\ (v = <<10, 5>> /\ B = <<10, 10>> /\ call.t0 = 2 /\ call.k = 0)
              => (ret.choice = 0 /\ EqInt(ret.RT, 12))
        /\ (v = <<10, 5>> /\ B = <<10, 10>> /\ call.t0 = 2 /\ call.k = 5)
              => (ret.choice = 0 /\ EqInt(ret.RT, 7))

\* C2: no simulate_LBA call changes the caller's drift-rate or threshold
\* container, for any s >= 0.
C2_ArgumentsNotMutated ==
    [][driftRates' = driftRates /\ thresholds' = thresholds]_vars

\* C3: when the drift rates and thresholds passed are all positive and
\* k is below the smallest threshold, the returned choice is in [0, n) and
\* the returned RT is at least t0, for every s >= 0 and every draw.
C3_ChoiceInRangeAndRTAtLeastT0 ==
    (/\ IsSim
     /\ ret.status = "ok"
     /\ \A i \in 1..Len(call.list_v) : call.list_v[i] > 0
     /\ \A j \in 1..Len(call.list_B) : call.list_B[j] > 0 /\ call.k < call.list_B[j]) =>
    /\ ret.choice \in 0..(Len(call.list_v) - 1)
    /\ ~IsNaN(ret.RT)
    /\ ~Less(ret.RT, [n |-> call.t0, d |-> 1])

\* C4: per-accumulator thresholds (more than one) whose count differs from
\* the number of drift rates make the call fail with InvalidArgument before
\* any finish time is computed.  (Stated for float drift rates.)
C4_LengthMismatchIsInvalidArgument ==
    (IsSim /\ driftRates.dtype = "float" /\ Len(call.list_B) > 1
        /\ Len(call.list_B) # Len(call.list_v)) =>
    (ret.status = "InvalidArgument" /\ ret.finish = <<>>)

\* C9: a single shared threshold with n >= 2 drift rates completes without
\* error and returns the (choice, scalar RT) of the race in which every
\* accumulator has that threshold.  (Stated for float drift rates.)
C9_SharedThresholdIsBroadcast ==
    (IsSim /\ driftRates.dtype = "float" /\ Len(call.list_B) = 1
        /\ Len(call.list_v) >= 2) =>
    /\ ret.status = "ok"
    /\ ret.shape = "scalar"
    /\ LET copies == [i \in 1..Len(call.list_v) |->
                        AddInt(Quot(call.list_B[1] - call.k, ret.vUsed[i]), call.t0)]
       IN  /\ ret.choice = ArgMin(copies) - 1
           /\ ret.RT = copies[ArgMin(copies)]

\* C10: with s = 0 the call completes without error, races the drift rates
\* exactly as supplied, and consumes one uniform draw and no Gaussian draw.
\* (Stated for float drift rates and one threshold per accumulator, n >= 2.)
C10_NoGaussianDrawWhenNoiseIsZero ==
    (IsSim /\ driftRates.dtype = "float" /\ call.s = 0
        /\ Len(call.list_v) >= 2 /\ Len(call.list_B) = Len(call.list_v)) =>
    /\ ret.status = "ok"
    /\ ret.vUsed = call.list_v
    /\ ret.uniformDraws = 1
    /\ ret.normalDraws = 0

IsDpdf == call.op = "defective_pdf_LBA" /\ ret # Pending

\* C5: for n >= 2 drift rates and ref in [0, n) the defective density is
\* accumulatorPDF at v_ref times the product of 1 - accumulatorCDF at v_j
\* over every index j # ref: one factor per other accumulator (equal drift
\* values included), none for the reference.
C5_DefectivePdfIsProductOverOthers ==
    (IsDpdf /\ Len(call.list_v) >= 2 /\ call.ref < Len(call.list_v)) =>
    LET v == call.list_v
        others == (1..Len(v)) \ {call.ref + 1}
        factor(j) == Complement(cdf_LBA_accumulator(call.t, v[j], call.b, call.A, call.s))
    IN  /\ ret.status = "ok"
        /\ ret.p_ref = pdf_LBA_accumulator(call.t, v[call.ref + 1], call.b, call.A, call.s)
        /\ ret.p_rest = [x \in {factor(j) : j \in others} |->
                            Cardinality({j \in others : factor(j) = x})]
        /\ BagCardinality(ret.p_rest) = Len(v) - 1

\* a defective density of three accumulators whose reference drift rate is
\* shared by another accumulator
C5_Witness ==
    /\ IsDpdf
    /\ ret.status = "ok"
    /\ Len(call.list_v) = 3
    /\ \E j \in 1..3 : j # call.ref + 1 /\ call.list_v[j] = call.list_v[call.ref + 1]

IsDcdf == call.op = "dcdf_from_dpdf" /\ ret # Pending

EvenlySpacedAscending(t) ==
    /\ Len(t) >= 2
    /\ t[2] > t[1]
    /\ \A i \in 1..(Len(t) - 1) : t[i + 1] - t[i] = t[2] - t[1]

RECURSIVE PartialSum(_, _, _)
PartialSum(d, step, i) ==
    IF i = 0 THEN 0 ELSE PartialSum(d, step, i - 1) + d[i] * step

\* C8: for an evenly spaced ascending grid of at least two points and as
\* many non-negative densities, the result has one value per point, the
\* i-th being the sum of density_j * step over j <= i, and is non-decreasing.
C8_DcdfIsMonotoneRunningSum ==
    (/\ IsDcdf
     /\ EvenlySpacedAscending(call.t)
     /\ Len(call.dpdf_values) = Len(call.t)
     /\ \A i \in 1..Len(call.dpdf_values) : call.dpdf_values[i] >= 0) =>
    /\ ret.status = "ok"
    /\ Len(ret.dcdf) = Len(call.t)
    /\ \A i \in 1..Len(call.t) :
          ret.dcdf[i] = PartialSum(call.dpdf_values, call.t[2] - call.t[1], i)
    /\ \A i \in 1..(Len(call.t) - 1) : ret.dcdf[i] <= ret.dcdf[i + 1]

\* a three-point grid whose cumulative values rise strictly
C8_Witness ==
    /\ IsDcdf
    /\ EvenlySpacedAscending(call.t)
    /\ Len(call.t) = 3
    /\ Len(call.dpdf_values) = 3
    /\ \A i \in 1..3 : call.dpdf_values[i] > 0
    /\ ret.status = "ok"
    /\ ret.dcdf[1] < ret.dcdf[2] /\ ret.dcdf[2] < ret.dcdf[3]

IsCdf == call.op = "cdf_from_pdf" /\ ret # Pending

\* C6: for n >= 2 pairs with non-negative densities, not all zero, the call
\* returns n entries in ascending x order: 0 first, 1 last, each the running
\* sum of density * x-step over the final running sum.
C6_CdfFromPdfReturnsNormalisedSums ==
    (/\ IsCdf
     /\ Len(call.x_values) >= 2
     /\ \A i \in 1..Len(call.pdf_values) : call.pdf_values[i] >= 0
     /\ \E i \in 1..Len(call.pdf_values) : call.pdf_values[i] > 0) =>
    LET n == Len(call.x_values) IN
    /\ ret.status = "ok"
    /\ Len(ret.cdf_values) = n
    /\ ret.cdf_values[1][1] = 0
    /\ ret.cdf_values[n][1] = ret.cdf_values[n][2]
    /\ ret.cdf_values[n][2] # 0

\* C7: a table whose densities are all zero makes the call report
\* DegenerateInput: no division by the zero total, no nan or inf produced.
C7_AllZeroIsDegenerateInput ==
    (/\ IsCdf
     /\ call.dtype = "float"
     /\ Len(call.x_values) >= 2
     /\ \A i \in 1..Len(call.pdf_values) : call.pdf_values[i] = 0) =>
    /\ ret.status = "DegenerateInput"
    /\ ~ret.divided
    /\ \A i \in 1..Len(ret.cdf_values) : ret.cdf_values[i][2] # 0

====
